---- MODULE Spec2Model ----
(***************************************************************************)
(* Chunk streaming of the marching-cubes terrain.                          *)
(*                                                                         *)
(* The streaming manager of src/src/terrain.rs (update_chunks and          *)
(* handle_terrain_chunk_tasks, run in that order in every frame, with the  *)
(* engine applying the queued commands at the end of the frame) is the     *)
(* state machine Spec.  The visible-set enumeration of update_chunks is a  *)
(* pure function of the cameras and the view distance; SpecVisible sweeps  *)
(* it over bounded inputs.  SpecLayout sweeps the construction of a mesh   *)
(* from a triangle list, SpecBuilder runs TerrainChunk::generate_mesh, and *)
(* SpecPolygonise sweeps polygonise over the cells of all configurations.  *)
(***************************************************************************)
EXTENDS Integers, Sequences, FiniteSets, TLC

VARIABLES
    program,              \* the source file whose systems the app registers
    chunk_view_distance,  \* Terrain.chunk_view_distance
    cameras,              \* translations of the entities with a Camera
    chunks,               \* Terrain.chunks: coordinate -> entity
    entities,             \* the world: entity -> its components
    tasks,                \* tasks alive in the task pool, by owning entity
    buffers,              \* the transfer buffers of the live tasks: what was done to each
    closed,               \* what was done to the buffers of the tasks the last
                          \* command application dropped
    commands,             \* the frame's queued commands
    pc,                   \* the system that runs next
    visible,              \* visible_chunk_coords as update_chunks computed it
    polled,               \* task -> the polls the frame's result handling made of it
    despawns,             \* entity -> number of despawns applied to it
    faults,               \* API misuse the run has committed, <<kind, id>>
    next_entity,          \* the entity allocator
    map_failures,         \* failed map requests so far
    chunk_size,           \* Terrain.chunk_size, the builder's resolution
    seed,                 \* the seed of the noise function the builds sample
    builds,               \* the meshes generate_mesh has returned, in order
    cell,                 \* polygonise's argument: the 8 corner samples
    tri_table,            \* which triangle table the program was built with
    triangles,            \* a triangle list: polygonise's result, a readback's content
    cube,                 \* the per-cell result in the transfer buffer: a count and 5 slots
    mesh                  \* the Mesh built from the triangle list

stream_vars ==
    <<program, chunk_view_distance, cameras, chunks, entities, tasks, buffers,
      closed, commands, pc, visible, polled, despawns, faults, next_entity,
      map_failures>>

mesh_vars == <<chunk_size, seed, builds, cell, tri_table, triangles, cube, mesh>>

vars == <<stream_vars, mesh_vars>>

----------------------------------------------------------------------------
(* Bounds of the model.                                                    *)

MaxViewDistance == 0
MaxSweepViewDistance == 3
MaxCameras == 2
MaxCameraOffset == 1
MaxSweepOffset == 2
MaxEntities == 5
MaxMapFailures == 1
MaxTriangles == 2
MaxChunkSize == 2
MaxSeed == 1
MaxBuilds == 2
MaxTables == 2

(* Program constants.                                                      *)

ChunkSize == 64

(* iso_level = 0.7, in tenths.                                             *)
IsoLevel == 7

----------------------------------------------------------------------------
(* Terrain::get_chunk_coords_at_translation: f32 division, round (half     *)
(* away from zero), cast.  Translations are whole numbers here.            *)

RoundDiv(n, d) ==
    IF n >= 0 THEN (2 * n + d) \div (2 * d)
    ELSE -((2 * (-n) + d) \div (2 * d))

get_chunk_coords_at_translation(t) ==
    <<RoundDiv(t[1], ChunkSize), RoundDiv(t[2], ChunkSize), RoundDiv(t[3], ChunkSize)>>

(* The loops of update_chunks that fill visible_chunk_coords.  A loop      *)
(* counts up from 1 and breaks at the first value whose squared distance   *)
(* exceeds its limit.                                                      *)

RECURSIVE XLoop(_, _, _, _)
XLoop(x, z, y, limit) ==
    IF x * x + z * z + y * y > limit THEN {}
    ELSE {x} \cup XLoop(x + 1, z, y, limit)

RECURSIVE ZLoop(_, _, _)
ZLoop(z, y, limit) ==
    IF z * z + y * y > limit THEN {}
    ELSE {z} \cup ZLoop(z + 1, y, limit)

(* A variant limit whose square wraps in a three-bit integer.              *)
CenterRowLimitWrapped(v) == (v * v) % 8

(* A variant limit that lets the loop run one squared unit further.        *)
CenterRowLimitInclusive(v) == v * v + 1

(* Lines 276-295: the row z = 0; the limit is the squared view distance.   *)
CenterRowLimit(v) == v * v

(* A variant limit for the rows z /= 0: the cube of the view distance.     *)
SideRowLimitCubed(v) == v * v * v

(* Lines 306-337: the rows z /= 0; the limit these loops name              *)
(* squared_view_distance is assigned chunk_view_distance itself.           *)
SideRowLimit(v) == v

(* A variant centre row without the insert of line 279 at x = 0.           *)
CenterRowOffAxis(c, y, v) ==
    UNION {{<<c[1] + x, c[2] + y, c[3]>>, <<c[1] - x, c[2] + y, c[3]>>} :
                    x \in XLoop(1, 0, y, CenterRowLimit(v))}

CenterRow(c, y, v) ==
    {<<c[1], c[2] + y, c[3]>>}
    \cup UNION {{<<c[1] + x, c[2] + y, c[3]>>, <<c[1] - x, c[2] + y, c[3]>>} :
                    x \in XLoop(1, 0, y, CenterRowLimit(v))}

SideRow(c, y, z, v) ==
    {<<c[1], c[2] + y, c[3] + z>>, <<c[1], c[2] + y, c[3] - z>>}
    \cup UNION {{<<c[1] + x, c[2] + y, c[3] + z>>, <<c[1] - x, c[2] + y, c[3] + z>>,
                 <<c[1] + x, c[2] + y, c[3] - z>>, <<c[1] - x, c[2] + y, c[3] - z>>} :
                    x \in XLoop(1, z, y, SideRowLimit(v))}

VisibleFromCenter(c, v) ==
    UNION {CenterRow(c, y, v)
           \cup UNION {SideRow(c, y, z, v) : z \in ZLoop(1, y, v * v)} :
               y \in (-v)..v}

(* A variant visible set that is made anew for each camera, so that only   *)
(* one camera's coordinates are left in it.                                *)
VisibleChunkCoordsOneCamera(cams, v) ==
    IF cams = {} THEN {}
    ELSE VisibleFromCenter(
            get_chunk_coords_at_translation(
                CHOOSE t \in cams : TRUE), v)

VisibleChunkCoords(cams, v) ==
    UNION {VisibleFromCenter(get_chunk_coords_at_translation(t), v) : t \in cams}

----------------------------------------------------------------------------
(* Values.                                                                 *)

HalfChunk == ChunkSize \div 2

(* Camera translations the streaming runs move between: on the x axis, at  *)
(* multiples of half a chunk, so that both roundings of a half occur.      *)
StreamTranslations ==
    {<<HalfChunk * i, 0, 0>> : i \in (-MaxCameraOffset)..MaxCameraOffset}

(* Camera translations of the visible-set sweep: on the three axes.        *)
SweepTranslations ==
    UNION {{<<HalfChunk * i, 0, 0>>, <<0, HalfChunk * i, 0>>, <<0, 0, HalfChunk * i>>} :
               i \in (-MaxSweepOffset)..MaxSweepOffset}

CameraSets(T) == {S \in SUBSET T : Cardinality(S) <= MaxCameras}

NoMesh == [task |-> 0, filled |-> FALSE]

Restrict(f, S) == [k \in S |-> f[k]]

Count(f, k) == IF k \in DOMAIN f THEN f[k] ELSE 0

(* The k-th smallest element of a set of entities, k from 1.               *)
NthEntity(S, k) == CHOOSE e \in S : Cardinality({f \in S : f < e}) = k - 1

CoordLess(a, b) ==
    \/ a[1] < b[1]
    \/ a[1] = b[1] /\ a[2] < b[2]
    \/ a[1] = b[1] /\ a[2] = b[2] /\ a[3] < b[3]

NthCoord(S, k) == CHOOSE c \in S : Cardinality({b \in S : CoordLess(b, c)}) = k - 1

Cmd(op, e, c, m) == [op |-> op, entity |-> e, coords |-> c, mesh |-> m]

LiveCoords == {entities[e].coords : e \in DOMAIN entities}

----------------------------------------------------------------------------
(* src/src/terrain.rs                                                      *)

(* Terrain::has_chunk, remove_chunk, set_chunk on the registry.            *)
has_chunk(reg, c) == c \in DOMAIN reg

(* A variant remove_chunk that leaves the entry in the registry.           *)
remove_chunk_kept(reg, c) == reg

remove_chunk(reg, c) == Restrict(reg, DOMAIN reg \ {c})

set_chunk(reg, c, e) == [k \in DOMAIN reg \cup {c} |-> IF k = c THEN e ELSE reg[k]]

RECURSIVE RemoveChunks(_, _)
RemoveChunks(reg, S) ==
    IF S = {} THEN reg
    ELSE LET c == CHOOSE k \in S : TRUE
         IN RemoveChunks(remove_chunk(reg, c), S \ {c})

(* A variant eviction that despawns every entity, visible or not.          *)
EvictedEntitiesAll(vis) == DOMAIN entities

(* update_chunks, lines 344-358: the entities whose coordinate is not      *)
(* visible are evicted; the coordinates of the others leave the set, and   *)
(* what is left of it is the spawn list of lines 362-558.                  *)
EvictedEntities(vis) == {e \in DOMAIN entities : entities[e].coords \notin vis}

(* A variant spawn list that keeps the coordinates of live entities.       *)
SpawnCoordsAll(vis) == vis

(* A variant spawn list cut down to one coordinate per frame.              *)
SpawnCoordsThrottled(vis) ==
    LET todo == vis \ {entities[e].coords : e \in DOMAIN entities \ EvictedEntities(vis)}
    IN IF todo = {} THEN {} ELSE {NthCoord(todo, 1)}

SpawnCoords(vis) ==
    vis \ {entities[e].coords : e \in DOMAIN entities \ EvictedEntities(vis)}

(* The entity commands.spawn() hands out for the k-th spawned coordinate.  *)
(* The HashSet yields the coordinates in an unspecified order; entities    *)
(* are opaque, so the order is fixed here to the coordinates' own.         *)
SpawnedEntity(first, k) == first + k - 1

(* A variant body that unmaps and destroys before it reads the range.      *)
TaskBodyReleasesFirst(ok) ==
    <<"unmap", "destroy">> \o (IF ok THEN <<"get_mapped_range">> ELSE <<>>)

(* The task's body after buffer_future.await, lines 482-503: the mapped    *)
(* range is read only on Ok; unmap and destroy follow in either case.      *)
TaskBody(ok) ==
    (IF ok THEN <<"get_mapped_range">> ELSE <<>>) \o <<"unmap", "destroy">>

(* Lines 484-548: the payload is built from the triangles read, which are  *)
(* none when the map failed.                                               *)
TaskPayload(e, ok) == [task |-> e, filled |-> ok]

update_chunks ==
    /\ program = "terrain"
    /\ pc = "update_chunks"
    /\ LET vis == VisibleChunkCoords(cameras, chunk_view_distance)
           evicted == EvictedEntities(vis)
           spawn == SpawnCoords(vis)
           n == Cardinality(spawn)
           fresh == {SpawnedEntity(next_entity, k) : k \in 1..n}
           coordOf(e) == NthCoord(spawn, e - next_entity + 1)
           reg == RemoveChunks(chunks, {entities[e].coords : e \in evicted})
       IN /\ visible' = vis
          /\ chunks' = [c \in DOMAIN reg \cup spawn |->
                            IF c \in spawn
                            THEN CHOOSE e \in fresh : coordOf(e) = c
                            ELSE reg[c]]
          /\ commands' = commands
                \o [k \in 1..Cardinality(evicted) |->
                        Cmd("despawn", NthEntity(evicted, k), <<0, 0, 0>>, NoMesh)]
                \o [k \in 1..n |->
                        Cmd("spawn", SpawnedEntity(next_entity, k), NthCoord(spawn, k), NoMesh)]
          /\ tasks' = [e \in DOMAIN tasks \cup fresh |->
                            IF e \in fresh
                            THEN [coords |-> coordOf(e), state |-> "awaiting_map", ok |-> FALSE]
                            ELSE tasks[e]]
          /\ buffers' = [e \in DOMAIN buffers \cup fresh |->
                            IF e \in fresh THEN <<"map_async">> ELSE buffers[e]]
          /\ next_entity' = next_entity + n
    /\ pc' = "handle_terrain_chunk_tasks"
    /\ closed' = {}
    /\ UNCHANGED <<program, chunk_view_distance, cameras, entities, polled,
                   despawns, faults, map_failures>>
    /\ UNCHANGED mesh_vars

(* handle_terrain_chunk_tasks, lines 568-589.  The query yields the        *)
(* entities of the world that hold a Task; poll_once takes the result of   *)
(* a finished task and returns None for a running one.                     *)
TaskHolders == {e \in DOMAIN entities : entities[e].task}

(* A variant poll that waits: it returns only once the task has finished.  *)
PollReturnsWhenFinished(e) == e \in DOMAIN tasks /\ tasks[e].state /= "awaiting_map"

(* future::block_on(future::poll_once(task)): one poll, which returns at  *)
(* once whatever the task's state.                                         *)
PollReturns(e) == TRUE

(* A variant poll that yields only the result of a successful transfer.    *)
PollReadyOnSuccess(e) ==
    e \in DOMAIN tasks /\ tasks[e].state = "finished" /\ tasks[e].ok

(* A variant poll that also yields for a task still awaiting the map.     *)
PollReadyUnfinished(e) ==
    e \in DOMAIN tasks /\ tasks[e].state \in {"awaiting_map", "finished"}

PollReady(e) == e \in DOMAIN tasks /\ tasks[e].state = "finished"

(* A variant handler that attaches, and removes the Task, only when the    *)
(* transfer succeeded.                                                     *)
AttachesOnSuccess(e) ==
    PollReady(e) /\ has_chunk(chunks, entities[e].coords) /\ tasks[e].ok

(* A variant handler without the has_chunk test of line 572.               *)
AttachesUnchecked(e) == PollReady(e)

(* A variant handler with the has_chunk test of line 572 negated.          *)
AttachesWhenEvicted(e) == PollReady(e) /\ ~has_chunk(chunks, entities[e].coords)

Attaches(e) == PollReady(e) /\ has_chunk(chunks, entities[e].coords)

handle_terrain_chunk_tasks ==
    /\ program = "terrain"
    /\ pc = "handle_terrain_chunk_tasks"
    /\ LET ready == {e \in TaskHolders : PollReady(e)}
           attach == {e \in TaskHolders : Attaches(e)}
           again == {e \in TaskHolders : e \in DOMAIN tasks /\ tasks[e].state = "taken"}
       IN /\ \A e \in TaskHolders : PollReturns(e)
          /\ polled' = [e \in TaskHolders |-> 1]
          /\ tasks' = [e \in DOMAIN tasks |->
                            IF e \in ready THEN [tasks[e] EXCEPT !.state = "taken"]
                            ELSE tasks[e]]
          /\ commands' = commands
                \o [k \in 1..(2 * Cardinality(attach)) |->
                        LET e == NthEntity(attach, (k + 1) \div 2)
                        IN IF k % 2 = 1
                           THEN Cmd("insert_bundle", e, entities[e].coords,
                                    TaskPayload(e, tasks[e].ok))
                           ELSE Cmd("remove_task", e, entities[e].coords, NoMesh)]
          /\ faults' = faults \cup {<<"poll_after_completion", e>> : e \in again}
    /\ pc' = "apply_commands"
    /\ UNCHANGED <<program, chunk_view_distance, cameras, chunks, entities, buffers,
                   closed, visible, despawns, next_entity, map_failures>>
    /\ UNCHANGED mesh_vars

----------------------------------------------------------------------------
(* src/src/terrain/mod.rs                                                  *)

(* setup_terrain, lines 283-297: the loops run once each, for the chunk at *)
(* (0, 0, 0).  Chunk::new creates the transfer buffer, create_compute_task *)
(* submits the dispatch and the copy, requests the map and spawns the      *)
(* request's future.                                                       *)
SetupCoords == {<<0, 0, 0>>}

setup_terrain ==
    /\ program = "terrain_mod"
    /\ pc = "setup_terrain"
    /\ LET n == Cardinality(SetupCoords)
           fresh == {SpawnedEntity(next_entity, k) : k \in 1..n}
           coordOf(e) == NthCoord(SetupCoords, e - next_entity + 1)
       IN /\ commands' = commands
                \o [k \in 1..n |->
                        Cmd("spawn", SpawnedEntity(next_entity, k),
                            NthCoord(SetupCoords, k), NoMesh)]
          /\ tasks' = [e \in DOMAIN tasks \cup fresh |->
                            IF e \in fresh
                            THEN [coords |-> coordOf(e), state |-> "awaiting_map", ok |-> FALSE]
                            ELSE tasks[e]]
          /\ buffers' = [e \in DOMAIN buffers \cup fresh |->
                            IF e \in fresh THEN <<"map_async">> ELSE buffers[e]]
          /\ next_entity' = next_entity + n
    /\ pc' = "apply_commands"
    /\ UNCHANGED <<program, chunk_view_distance, cameras, chunks, entities, closed,
                   visible, polled, despawns, faults, map_failures>>
    /\ UNCHANGED mesh_vars

(* Chunk::create_mesh, lines 217-235: the mapped range is taken, read,     *)
(* and the buffer unmapped and destroyed.                                  *)
CreateMeshOps == <<"get_mapped_range", "unmap", "destroy">>

(* update_terrain, lines 306-328: whatever the finished request returned,  *)
(* the mesh is created from the buffer and attached, and the Task removed. *)
update_terrain ==
    /\ program = "terrain_mod"
    /\ pc = "update_terrain"
    /\ LET ready == {e \in TaskHolders : PollReady(e)}
           again == {e \in TaskHolders : e \in DOMAIN tasks /\ tasks[e].state = "taken"}
       IN /\ \A e \in TaskHolders : PollReturns(e)
          /\ polled' = [e \in TaskHolders |-> 1]
          /\ tasks' = [e \in DOMAIN tasks |->
                            IF e \in ready THEN [tasks[e] EXCEPT !.state = "taken"]
                            ELSE tasks[e]]
          /\ buffers' = [e \in DOMAIN buffers |->
                            IF e \in ready THEN buffers[e] \o CreateMeshOps
                            ELSE buffers[e]]
          /\ commands' = commands
                \o [k \in 1..(2 * Cardinality(ready)) |->
                        LET e == NthEntity(ready, (k + 1) \div 2)
                        IN IF k % 2 = 1
                           THEN Cmd("insert_bundle", e, entities[e].coords,
                                    TaskPayload(e, tasks[e].ok))
                           ELSE Cmd("remove_task", e, entities[e].coords, NoMesh)]
          /\ faults' = faults \cup {<<"poll_after_completion", e>> : e \in again}
    /\ pc' = "apply_commands"
    /\ UNCHANGED <<program, chunk_view_distance, cameras, chunks, entities, closed,
                   visible, despawns, next_entity, map_failures>>
    /\ UNCHANGED mesh_vars

----------------------------------------------------------------------------
(* src/src/main.rs                                                         *)

(* gpu_setup, lines 294-321: the read buffer is created and kept in the    *)
(* Option<Buffer> resource, the dispatch and the copy are submitted, the   *)
(* map is requested and its future spawned, the Task put on a new entity.  *)
gpu_setup ==
    /\ program = "main"
    /\ pc = "gpu_setup"
    /\ commands' = commands
            \o <<Cmd("spawn", SpawnedEntity(next_entity, 1), <<0, 0, 0>>, NoMesh)>>
    /\ tasks' = [e \in DOMAIN tasks \cup {next_entity} |->
                    IF e = next_entity
                    THEN [coords |-> <<0, 0, 0>>, state |-> "awaiting_map", ok |-> FALSE]
                    ELSE tasks[e]]
    /\ buffers' = [e \in DOMAIN buffers \cup {next_entity} |->
                    IF e = next_entity THEN <<"map_async">> ELSE buffers[e]]
    /\ next_entity' = next_entity + 1
    /\ pc' = "apply_commands"
    /\ UNCHANGED <<program, chunk_view_distance, cameras, chunks, entities, closed,
                   visible, polled, despawns, faults, map_failures>>
    /\ UNCHANGED mesh_vars

(* gpu_update, lines 331-342: the resource holds the buffer, so the range  *)
(* is taken, its first value read, and the buffer unmapped.                *)
GpuReadOps == <<"get_mapped_range", "unmap">>

(* gpu_update, lines 329-348.                                              *)
gpu_update ==
    /\ program = "main"
    /\ pc = "gpu_update"
    /\ LET ready == {e \in TaskHolders : PollReady(e)}
           again == {e \in TaskHolders : e \in DOMAIN tasks /\ tasks[e].state = "taken"}
       IN /\ \A e \in TaskHolders : PollReturns(e)
          /\ polled' = [e \in TaskHolders |-> 1]
          /\ tasks' = [e \in DOMAIN tasks |->
                            IF e \in ready THEN [tasks[e] EXCEPT !.state = "taken"]
                            ELSE tasks[e]]
          /\ buffers' = [e \in DOMAIN buffers |->
                            IF e \in ready THEN buffers[e] \o GpuReadOps
                            ELSE buffers[e]]
          /\ commands' = commands
                \o [k \in 1..Cardinality(ready) |->
                        Cmd("remove_task", NthEntity(ready, k), <<0, 0, 0>>, NoMesh)]
          /\ faults' = faults \cup {<<"poll_after_completion", e>> : e \in again}
    /\ pc' = "apply_commands"
    /\ UNCHANGED <<program, chunk_view_distance, cameras, chunks, entities, closed,
                   visible, despawns, next_entity, map_failures>>
    /\ UNCHANGED mesh_vars

----------------------------------------------------------------------------
(* The engine: the commands queued during the frame are applied in order   *)
(* when the stage ends.                                                    *)

World(en, ta, bu, cl, de, fa) ==
    [entities |-> en, tasks |-> ta, buffers |-> bu, closed |-> cl, despawns |-> de,
     faults |-> fa]

(* A variant drop that cancels the task and leaves its buffer behind.      *)
DropTaskLeaksBuffer(w, e) ==
    IF e \notin DOMAIN w.tasks THEN w
    ELSE [w EXCEPT !.tasks = Restrict(w.tasks, DOMAIN w.tasks \ {e})]

(* Dropping a Task cancels it: a body still awaiting the map never runs    *)
(* its remainder.  In terrain.rs the transfer buffer is a local of the     *)
(* task's body and its handle is dropped with the task; in terrain/mod.rs  *)
(* and main.rs the buffer belongs to the Chunk component or to a resource  *)
(* and outlives the task.                                                  *)
DropTask(w, e) ==
    IF e \notin DOMAIN w.tasks THEN w
    ELSE IF program /= "terrain"
    THEN [w EXCEPT !.tasks = Restrict(w.tasks, DOMAIN w.tasks \ {e})]
    ELSE [w EXCEPT
            !.tasks = Restrict(w.tasks, DOMAIN w.tasks \ {e}),
            !.buffers = Restrict(w.buffers, DOMAIN w.buffers \ {e}),
            !.closed = @ \cup {IF w.tasks[e].state = "awaiting_map"
                               THEN w.buffers[e] \o <<"drop">>
                               ELSE w.buffers[e]}]

ApplyCommand(w, cmd) ==
    CASE cmd.op = "despawn" ->
            IF cmd.entity \in DOMAIN w.entities
            THEN LET d == DropTask(w, cmd.entity)
                 IN [d EXCEPT
                        !.entities = Restrict(w.entities, DOMAIN w.entities \ {cmd.entity}),
                        !.despawns = [e \in DOMAIN w.despawns \cup {cmd.entity} |->
                                        IF e = cmd.entity THEN Count(w.despawns, e) + 1
                                        ELSE w.despawns[e]]]
            ELSE [w EXCEPT !.faults = @ \cup {<<"despawn_missing", cmd.entity>>}]
      [] cmd.op = "spawn" ->
            [w EXCEPT !.entities =
                [e \in DOMAIN w.entities \cup {cmd.entity} |->
                    IF e = cmd.entity
                    THEN [coords |-> cmd.coords, task |-> TRUE, mesh |-> NoMesh]
                    ELSE w.entities[e]]]
      [] cmd.op = "insert_bundle" ->
            IF cmd.entity \in DOMAIN w.entities
            THEN [w EXCEPT !.entities[cmd.entity].mesh = cmd.mesh]
            ELSE [w EXCEPT !.faults = @ \cup {<<"insert_missing", cmd.entity>>}]
      [] cmd.op = "remove_task" ->
            IF cmd.entity \in DOMAIN w.entities
            THEN [DropTask(w, cmd.entity) EXCEPT !.entities[cmd.entity].task = FALSE]
            ELSE w

RECURSIVE ApplyAll(_, _)
ApplyAll(w, cmds) ==
    IF cmds = <<>> THEN w
    ELSE ApplyAll(ApplyCommand(w, Head(cmds)), Tail(cmds))

(* The first system of a frame.                                            *)
FrameSystem(prog) ==
    CASE prog = "terrain" -> "update_chunks"
      [] prog = "terrain_mod" -> "update_terrain"
      [] prog = "main" -> "gpu_update"

(* The system the app starts with.                                         *)
StartSystem(prog) ==
    CASE prog = "terrain" -> "update_chunks"
      [] prog = "terrain_mod" -> "setup_terrain"
      [] prog = "main" -> "gpu_setup"

apply_commands ==
    /\ pc = "apply_commands"
    /\ LET w == ApplyAll(World(entities, tasks, buffers, {}, despawns, faults),
                         commands)
       IN /\ entities' = w.entities
          /\ tasks' = w.tasks
          /\ buffers' = w.buffers
          /\ closed' = w.closed
          /\ despawns' = w.despawns
          /\ faults' = w.faults
    /\ commands' = <<>>
    /\ visible' = {}
    /\ polled' = <<>>
    /\ pc' = FrameSystem(program)
    /\ UNCHANGED <<program, chunk_view_distance, cameras, chunks, next_entity,
                   map_failures>>
    /\ UNCHANGED mesh_vars

----------------------------------------------------------------------------
(* The environment.                                                        *)

(* The entities a frame started with these cameras would spawn.            *)
SpawnNeed(cams, v) == Cardinality(VisibleChunkCoords(cams, v) \ LiveCoords)

(* Between frames the cameras move, appear and disappear.  The moves are   *)
(* kept to those the entity allocator's bound has room for.                *)
move_cameras ==
    /\ program = "terrain"
    /\ pc = "update_chunks"
    /\ \E S \in CameraSets(StreamTranslations) \ {cameras} :
          /\ next_entity + SpawnNeed(S, chunk_view_distance) - 1 <= MaxEntities
          /\ cameras' = S
    /\ UNCHANGED <<program, chunk_view_distance, chunks, entities, tasks, buffers,
                   closed, commands, pc, visible, polled, despawns, faults,
                   next_entity, map_failures>>
    /\ UNCHANGED mesh_vars

(* The device resolves a task's map request, with Ok or with an error.    *)
(* In terrain.rs the request is awaited inside the task, whose body the    *)
(* pool then runs to its end; in terrain/mod.rs and main.rs the task is    *)
(* the request's future alone.                                             *)
MapResult(ok) == <<IF ok THEN "map_ok" ELSE "map_err">>

(* A variant completion in which the finishing task takes its coordinate   *)
(* out of the registry.                                                    *)
map_resolves_unregisters(e, ok) ==
    /\ e \in DOMAIN tasks
    /\ tasks[e].state = "awaiting_map"
    /\ ok \/ map_failures < MaxMapFailures
    /\ tasks' = [tasks EXCEPT ![e].state = "finished", ![e].ok = ok]
    /\ buffers' = [buffers EXCEPT ![e] =
            @ \o MapResult(ok) \o (IF program = "terrain" THEN TaskBody(ok) ELSE <<>>)]
    /\ map_failures' = IF ok THEN map_failures ELSE map_failures + 1
    /\ chunks' = remove_chunk(chunks, tasks[e].coords)
    /\ UNCHANGED <<program, chunk_view_distance, cameras, entities, closed,
                   commands, pc, visible, polled, despawns, faults, next_entity>>
    /\ UNCHANGED mesh_vars

map_resolves(e, ok) ==
    /\ e \in DOMAIN tasks
    /\ tasks[e].state = "awaiting_map"
    /\ ok \/ map_failures < MaxMapFailures
    /\ tasks' = [tasks EXCEPT ![e].state = "finished", ![e].ok = ok]
    /\ buffers' = [buffers EXCEPT ![e] =
            @ \o MapResult(ok) \o (IF program = "terrain" THEN TaskBody(ok) ELSE <<>>)]
    /\ map_failures' = IF ok THEN map_failures ELSE map_failures + 1
    /\ UNCHANGED <<program, chunk_view_distance, cameras, chunks, entities, closed,
                   commands, pc, visible, polled, despawns, faults, next_entity>>
    /\ UNCHANGED mesh_vars

----------------------------------------------------------------------------
(* Specifications.                                                         *)

Programs == {"terrain", "terrain_mod", "main"}

Empty ==
    /\ chunks = <<>>
    /\ entities = <<>>
    /\ tasks = <<>>
    /\ buffers = <<>>
    /\ closed = {}
    /\ commands = <<>>
    /\ visible = {}
    /\ polled = <<>>
    /\ despawns = <<>>
    /\ faults = {}
    /\ next_entity = 1
    /\ map_failures = 0

(* Mesh::new: a mesh without indices or attributes.                        *)
NewMesh == [indices |-> <<>>, positions |-> <<>>, normals |-> <<>>, uvs |-> <<>>]

(* Cube zeroed (Zeroable): no triangle, every slot at the origin.          *)
ZeroTriangle == [a |-> <<0, 0, 0>>, b |-> <<0, 0, 0>>, c |-> <<0, 0, 0>>]

ZeroCube == [triangle_count |-> 0, triangles |-> [i \in 0..4 |-> ZeroTriangle]]

(* No build has run: Terrain::new sets the resolution, the noise function  *)
(* has its default seed, and there is no triangle list yet.                *)
Unbuilt ==
    /\ chunk_size = ChunkSize
    /\ seed = 0
    /\ builds = <<>>
    /\ cell = <<>>
    /\ tri_table = 1
    /\ triangles = <<>>
    /\ cube = ZeroCube
    /\ mesh = NewMesh

(* Terrain::new and the app's start: no chunk, no entity; the cameras are  *)
(* wherever the host put them.  Only terrain.rs reads cameras.             *)
Init ==
    /\ program \in Programs
    /\ chunk_view_distance \in 0..MaxViewDistance
    /\ cameras \in CameraSets(StreamTranslations)
    /\ program /= "terrain" => chunk_view_distance = 0 /\ cameras = {}
    /\ Cardinality(VisibleChunkCoords(cameras, chunk_view_distance)) <= MaxEntities
    /\ Empty
    /\ Unbuilt
    /\ pc = StartSystem(program)

Next ==
    \/ update_chunks
    \/ handle_terrain_chunk_tasks
    \/ setup_terrain
    \/ update_terrain
    \/ gpu_setup
    \/ gpu_update
    \/ apply_commands
    \/ move_cameras
    \/ \E e \in 1..MaxEntities, ok \in BOOLEAN : map_resolves(e, ok)

Spec == Init /\ [][Next]_vars

(* The app's runner runs the schedule frame after frame: a system that is  *)
(* next runs, and the stage's commands are applied.  Nothing promises that *)
(* the device resolves a map request or that a camera moves.               *)
Frame ==
    \/ update_chunks
    \/ handle_terrain_chunk_tasks
    \/ setup_terrain
    \/ update_terrain
    \/ gpu_setup
    \/ gpu_update
    \/ apply_commands

FairSpec == Spec /\ WF_vars(Frame)

(* The sweep of the visible-set enumeration: lines 265-342 of              *)
(* update_chunks applied to each camera set and view distance.             *)
compute_visible ==
    /\ pc = "update_chunks"
    /\ visible' = VisibleChunkCoords(cameras, chunk_view_distance)
    /\ pc' = "visible_computed"
    /\ UNCHANGED <<program, chunk_view_distance, cameras, chunks, entities, tasks,
                   buffers, closed, commands, polled, despawns, faults, next_entity,
                   map_failures>>
    /\ UNCHANGED mesh_vars

InitVisible ==
    /\ program = "terrain"
    /\ chunk_view_distance \in 0..MaxSweepViewDistance
    /\ cameras \in CameraSets(SweepTranslations)
    /\ Empty
    /\ Unbuilt
    /\ pc = "update_chunks"

NextVisible == compute_visible

SpecVisible == InitVisible /\ [][NextVisible]_vars

----------------------------------------------------------------------------
(* The mesh built from a triangle list: src/src/terrain.rs lines 219-250   *)
(* (generate_mesh) and lines 505-538 (the task of update_chunks).          *)

(* Vec3 arithmetic on whole-number vectors.                                *)
VSub(u, v) == <<u[1] - v[1], u[2] - v[2], u[3] - v[3]>>

VAdd(u, v) == <<u[1] + v[1], u[2] + v[2], u[3] + v[3]>>

VCross(u, v) ==
    <<u[2] * v[3] - u[3] * v[2], u[3] * v[1] - u[1] * v[3], u[1] * v[2] - u[2] * v[1]>>

Abs(n) == IF n < 0 THEN -n ELSE n

RECURSIVE GCD(_, _)
GCD(a, b) == IF b = 0 THEN a ELSE GCD(b, a % b)

(* Vec3::normalize: the vector times the reciprocal of its length, which   *)
(* is NaN in every component for the zero vector.  A unit vector is        *)
(* written as its direction, the shortest whole-number vector along it,    *)
(* and the NaN vector as <<0, 0, 0>>, which is no direction.               *)
NaNVector == <<0, 0, 0>>

VNormalize(v) ==
    LET g == GCD(GCD(Abs(v[1]), Abs(v[2])), Abs(v[3]))
    IN IF g = 0 THEN NaNVector ELSE <<v[1] \div g, v[2] \div g, v[3] \div g>>

(* triangles.iter().map([a, b, c]).flatten(): the corners of the triangles *)
(* one after the other.                                                    *)
FlattenTriangles(tris) ==
    [i \in 1..(3 * Len(tris)) |->
        LET t == tris[((i - 1) \div 3) + 1]
        IN CASE (i - 1) % 3 = 0 -> t.a
             [] (i - 1) % 3 = 1 -> t.b
             [] (i - 1) % 3 = 2 -> t.c]

(* The loop over indices.chunks(3): one normal per chunk of three indices, *)
(* from the vertices the chunk's indices name, pushed three times.         *)
ChunkNormal(vertices, indices, j) ==
    LET a == vertices[indices[3 * j + 1] + 1]
        b == vertices[indices[3 * j + 2] + 1]
        c == vertices[indices[3 * j + 3] + 1]
    IN VNormalize(VCross(VSub(b, a), VSub(c, a)))

ChunkNormals(vertices, indices) ==
    [i \in 1..(3 * (Len(indices) \div 3)) |->
        ChunkNormal(vertices, indices, (i - 1) \div 3)]

(* A variant of lines 505-538 that takes every normal from the first       *)
(* triangle's vertices.                                                    *)
ReadbackMeshFirstNormal(tris) ==
    LET vertices == FlattenTriangles(tris)
        indices == [i \in 1..Len(vertices) |-> i - 1]
    IN [indices |-> indices,
        positions |-> vertices,
        normals |-> [i \in 1..(3 * (Len(indices) \div 3)) |->
                        ChunkNormal(vertices, indices, 0)],
        uvs |-> [i \in 1..Len(vertices) |-> <<0, 0>>]]

(* update_chunks, lines 505-538: the mesh of the triangles read back.      *)
ReadbackMesh(tris) ==
    LET vertices == FlattenTriangles(tris)
        indices == [i \in 1..Len(vertices) |-> i - 1]
        uvs == [i \in 1..Len(vertices) |-> <<0, 0>>]
        normals == ChunkNormals(vertices, indices)
    IN [indices |-> indices, positions |-> vertices, normals |-> normals, uvs |-> uvs]

(* generate_mesh, lines 219-250: the mesh of the triangles polygonised.    *)
BuilderMesh(tris) ==
    LET vertices == FlattenTriangles(tris)
        indices == [i \in 1..Len(vertices) |-> i - 1]
        uvs == [i \in 1..Len(vertices) |-> <<0, 0>>]
        normals == ChunkNormals(vertices, indices)
    IN [indices |-> indices, positions |-> vertices, normals |-> normals, uvs |-> uvs]

(* The task's mesh construction, applied to the triangle list read back.   *)
readback_mesh ==
    /\ pc = "triangles_read"
    /\ mesh' = ReadbackMesh(triangles)
    /\ pc' = "readback_built"
    /\ UNCHANGED <<program, chunk_view_distance, cameras, chunks, entities, tasks,
                   buffers, closed, commands, visible, polled, despawns, faults,
                   next_entity, map_failures>>
    /\ UNCHANGED <<chunk_size, seed, builds, cell, tri_table, triangles, cube>>

(* generate_mesh's mesh construction, applied to the same triangle list.   *)
generate_mesh_layout ==
    /\ pc = "triangles_read"
    /\ mesh' = BuilderMesh(triangles)
    /\ pc' = "builder_built"
    /\ UNCHANGED <<program, chunk_view_distance, cameras, chunks, entities, tasks,
                   buffers, closed, commands, visible, polled, despawns, faults,
                   next_entity, map_failures>>
    /\ UNCHANGED <<chunk_size, seed, builds, cell, tri_table, triangles, cube>>

(* Triangle lists of the layout sweep: up to MaxTriangles triangles with   *)
(* corners among the origin and the three unit points, so that flat and    *)
(* degenerate triangles occur.                                             *)
LayoutPoints == {<<0, 0, 0>>, <<1, 0, 0>>, <<0, 1, 0>>, <<0, 0, 1>>}

LayoutTriangles == [a : LayoutPoints, b : LayoutPoints, c : LayoutPoints]

TriangleLists == UNION {[1..n -> LayoutTriangles] : n \in 0..MaxTriangles}

InitLayout ==
    /\ program = "terrain"
    /\ chunk_view_distance = 0
    /\ cameras = {}
    /\ Empty
    /\ chunk_size = ChunkSize
    /\ seed = 0
    /\ builds = <<>>
    /\ cell = <<>>
    /\ tri_table = 1
    /\ triangles \in TriangleLists
    /\ cube = ZeroCube
    /\ mesh = NewMesh
    /\ pc = "triangles_read"

NextLayout == readback_mesh \/ generate_mesh_layout

SpecLayout == InitLayout /\ [][NextLayout]_vars

----------------------------------------------------------------------------
(* The density field: TerrainChunk::value_from_noise, lines 127-133.       *)
(* Positions are whole numbers of half cells (cell_size is 1.0), values    *)
(* are in tenths.                                                          *)

(* noise.get of the noise crate: a fixed function of the seed and the      *)
(* position, here one that takes the values 0.0 and 0.5.                   *)
NoiseGet(s, p) == IF (3 * p[1] + 5 * p[2] + 7 * p[3] + s) % 4 < 2 THEN 5 ELSE 0

value_from_noise(s, p) == 10 - NoiseGet(s, p) * 2

----------------------------------------------------------------------------
(* marching_cubes::polygonise and its tables.                              *)

Corners == 0..7

Edges == 0..11

(* The two corners each of the cube's 12 edges joins.                      *)
EdgeCorners ==
    <<<<0, 1>>, <<1, 2>>, <<2, 3>>, <<3, 0>>, <<4, 5>>, <<5, 6>>, <<6, 7>>, <<7, 4>>,
      <<0, 4>>, <<1, 5>>, <<2, 6>>, <<3, 7>>>>

Sentinel == -1

RowLength == 16

Pow2(i) == CASE i = 0 -> 1 [] i = 1 -> 2 [] i = 2 -> 4 [] i = 3 -> 8
             [] i = 4 -> 16 [] i = 5 -> 32 [] i = 6 -> 64 [] i = 7 -> 128

Bit(n, i) == (n \div Pow2(i)) % 2 = 1

(* Step 1: bit i of the configuration index is set iff the value of corner *)
(* i is below the iso-level.                                               *)
(* A variant bit that also counts a value at the iso-level as below it.    *)
ConfigBitInclusive(c, iso, i) == IF c[i + 1].value <= iso THEN Pow2(i) ELSE 0

ConfigBit(c, iso, i) == IF c[i + 1].value < iso THEN Pow2(i) ELSE 0

RECURSIVE ConfigIndexFrom(_, _, _)
ConfigIndexFrom(c, iso, i) ==
    IF i > 7 THEN 0 ELSE ConfigBit(c, iso, i) + ConfigIndexFrom(c, iso, i + 1)

ConfigIndex(c, iso) == ConfigIndexFrom(c, iso, 0)

(* A variant edge table indexed by the low 7 bits of the configuration.    *)
EdgeMaskSevenBit(config) ==
    {e \in Edges : Bit(config % 128, EdgeCorners[e + 1][1])
                       /= Bit(config % 128, EdgeCorners[e + 1][2])}

(* The edge table: the edges of a configuration whose two corners lie on   *)
(* different sides of the surface.                                         *)
EdgeMask(config) ==
    {e \in Edges : Bit(config, EdgeCorners[e + 1][1]) /= Bit(config, EdgeCorners[e + 1][2])}

(* The k-th smallest crossed edge, k from 1.                               *)
NthEdge(S, k) == CHOOSE e \in S : Cardinality({f \in S : f < e}) = k - 1

Min(a, b) == IF a < b THEN a ELSE b

Max(a, b) == IF a > b THEN a ELSE b

(* The triangle tables the model ranges over.  A table's entry names only  *)
(* crossed edges: a fan of triangles over them, at most 5, followed by     *)
(* sentinels up to the entry's 16 places.  Table v has k - 1 - v triangles *)
(* for a configuration with k >= 3 crossed edges, and at least one.        *)
RowTriangles(v, config) ==
    LET k == Cardinality(EdgeMask(config))
    IN IF k < 3 THEN 0 ELSE Max(1, Min(5, k - 1 - v))

TriTable(v, config) ==
    LET E == EdgeMask(config)
        n == RowTriangles(v, config)
    IN [i \in 1..RowLength |->
            IF i > 3 * n THEN Sentinel
            ELSE CASE (i - 1) % 3 = 0 -> NthEdge(E, 1)
                   [] (i - 1) % 3 = 1 -> NthEdge(E, ((i - 1) \div 3) + 2)
                   [] (i - 1) % 3 = 2 -> NthEdge(E, ((i - 1) \div 3) + 3)]

(* Step 3: the crossing point of an edge, lerp(pa, pb, t) with             *)
(* t = (iso - va) / (vb - va), the midpoint when va = vb.  The point is in *)
(* tenths of the corners' unit.                                            *)
PointScale == 10

(* A variant crossing point that measures t from the value of corner b.    *)
InterpolateFromB(iso, pa, pb, va, vb) ==
    LET d == vb - va
        num == IF d < 0 THEN -(iso - vb) ELSE iso - vb
        den == Abs(d)
        along(i) == IF d = 0 THEN (PointScale * (pb[i] - pa[i])) \div 2
                    ELSE (PointScale * num * (pb[i] - pa[i])) \div den
    IN <<PointScale * pa[1] + along(1), PointScale * pa[2] + along(2),
         PointScale * pa[3] + along(3)>>

Interpolate(iso, pa, pb, va, vb) ==
    LET d == vb - va
        num == IF d < 0 THEN -(iso - va) ELSE iso - va
        den == Abs(d)
        along(i) == IF d = 0 THEN (PointScale * (pb[i] - pa[i])) \div 2
                    ELSE (PointScale * num * (pb[i] - pa[i])) \div den
    IN <<PointScale * pa[1] + along(1), PointScale * pa[2] + along(2),
         PointScale * pa[3] + along(3)>>

VertList(c, iso, config) ==
    [k \in 1..12 |->
        IF (k - 1) \in EdgeMask(config)
        THEN LET a == c[EdgeCorners[k][1] + 1]
                 b == c[EdgeCorners[k][2] + 1]
             IN Interpolate(iso, a.position, b.position, a.value, b.value)
        ELSE <<0, 0, 0>>]

(* Step 4: the walk of the entry's triples up to the sentinel.             *)
RECURSIVE WalkRow(_, _, _)
WalkRow(row, verts, i) ==
    IF i > RowLength \/ row[i] = Sentinel THEN <<>>
    ELSE <<[a |-> verts[row[i] + 1], b |-> verts[row[i + 1] + 1],
            c |-> verts[row[i + 2] + 1]]>>
         \o WalkRow(row, verts, i + 3)

(* A variant walk that stops one triple short of the sentinel.             *)
polygonise_drops_last(c, iso, table) ==
    LET config == ConfigIndex(c, iso)
        tris == WalkRow(TriTable(table, config), VertList(c, iso, config), 1)
    IN IF EdgeMask(config) = {} THEN <<>>
       ELSE SubSeq(tris, 1, Len(tris) - 1)

polygonise(c, iso, table) ==
    LET config == ConfigIndex(c, iso)
    IN IF EdgeMask(config) = {} THEN <<>>
       ELSE WalkRow(TriTable(table, config), VertList(c, iso, config), 1)

----------------------------------------------------------------------------
(* TerrainChunk::generate_mesh, src/src/terrain.rs lines 135-253.          *)
(* Positions are in half cells: cell_size is 1.0 and every position the    *)
(* code computes is a multiple of 0.5.                                     *)

(* A variant offset that leaves the chunk coordinate unscaled.             *)
TranslationOffsetUnscaled(c, R) == <<2 * c[1] - R, 2 * c[2] - R, 2 * c[3] - R>>

(* Lines 147-151: chunk_coords * chunk_size - chunk_size / 2.              *)
TranslationOffset(c, R) == <<2 * c[1] * R - R, 2 * c[2] * R - R, 2 * c[3] * R - R>>

(* The task's InputBuffer.position, lines 378-382: the same expression.    *)
InputPosition(c, R) == <<2 * c[1] * R - R, 2 * c[2] * R - R, 2 * c[3] * R - R>>

(* The Transform handle_terrain_chunk_tasks gives the chunk, lines         *)
(* 576-580: coords * chunk_size.                                           *)
ChunkTransform(c, R) == <<2 * c[1] * R, 2 * c[2] * R, 2 * c[3] * R>>

(* Lines 156-163: the centre of cell (x, y, z).                            *)
CellTranslation(x, y, z, R) == <<2 * x - R + 1, 2 * y - R + 1, 2 * z - R + 1>>

(* Lines 165-178: the 8 corners, half a cell from the centre.              *)
CornerOffsets ==
    <<<<-1, -1, -1>>, <<1, -1, -1>>, <<1, -1, 1>>, <<-1, -1, 1>>,
      <<-1, 1, -1>>, <<1, 1, -1>>, <<1, 1, 1>>, <<-1, 1, 1>>>>

CellPoints(x, y, z, R) ==
    [i \in 1..8 |-> VAdd(CellTranslation(x, y, z, R), CornerOffsets[i])]

(* Lines 180-213: each corner with the field's value at the corner plus    *)
(* the translation offset.                                                 *)
SamplePoint(p, c, R) == VAdd(p, TranslationOffset(c, R))

SampledCell(s, c, R, x, y, z) ==
    [i \in 1..8 |->
        [position |-> CellPoints(x, y, z, R)[i],
         value |-> value_from_noise(s, SamplePoint(CellPoints(x, y, z, R)[i], c, R))]]

(* Lines 153-217: the cells in the order of the loops, x innermost, and    *)
(* the triangles of each appended to the list.                             *)
RECURSIVE GridTriangles(_, _, _, _, _)
GridTriangles(s, c, R, table, k) ==
    IF k >= R * R * R THEN <<>>
    ELSE polygonise(SampledCell(s, c, R, k % R, (k \div R) % R, k \div (R * R)),
                    IsoLevel, table)
         \o GridTriangles(s, c, R, table, k + 1)

(* The corners the build samples: the corner's position in the chunk with  *)
(* the position the field is sampled at.                                   *)
GridSamples(c, R) ==
    {[corner |-> CellPoints(x, y, z, R)[i],
      sampled |-> SamplePoint(CellPoints(x, y, z, R)[i], c, R)] :
        x \in 0..(R - 1), y \in 0..(R - 1), z \in 0..(R - 1), i \in 1..8}

(* A variant build whose noise is seeded from state the builds share.      *)
BuildSeedShared == seed + Len(builds)

(* Lines 136-138: SuperSimplex::new() and a set_seed whose result is       *)
(* dropped: every build samples the same noise function.                   *)
BuildSeed == seed

generate_mesh(c) ==
    /\ pc = "builder"
    /\ Len(builds) < MaxBuilds
    /\ builds' = Append(builds,
            [coords |-> c,
             samples |-> GridSamples(c, chunk_size),
             mesh |-> BuilderMesh(GridTriangles(BuildSeed, c, chunk_size, tri_table, 0))])
    /\ UNCHANGED stream_vars
    /\ UNCHANGED <<chunk_size, seed, cell, tri_table, triangles, cube, mesh>>

(* The chunk coordinates of the builds: the origin and its neighbours      *)
(* along the axes.                                                         *)
BuildCoords ==
    {<<0, 0, 0>>, <<1, 0, 0>>, <<-1, 0, 0>>, <<0, 1, 0>>, <<0, 0, 1>>}

InitBuilder ==
    /\ program = "terrain"
    /\ chunk_view_distance = 0
    /\ cameras = {}
    /\ Empty
    /\ chunk_size \in 1..MaxChunkSize
    /\ seed \in 0..MaxSeed
    /\ tri_table \in 1..MaxTables
    /\ builds = <<>>
    /\ cell = <<>>
    /\ triangles = <<>>
    /\ cube = ZeroCube
    /\ mesh = NewMesh
    /\ pc = "builder"

NextBuilder == \E c \in BuildCoords : generate_mesh(c)

SpecBuilder == InitBuilder /\ [][NextBuilder]_vars

----------------------------------------------------------------------------
(* The sweep of polygonise over the cells of every configuration.          *)

(* The values a corner takes in the sweep: 0.0 below the iso-level, 0.7 at *)
(* it and 1.0 above it.                                                    *)
SweepValues == {0, IsoLevel, 10}

(* A cell of the sweep: the corners of the cell around the origin, in the  *)
(* order of lines 165-178, each with a value.                              *)
SweepCells ==
    {[i \in 1..8 |-> [position |-> CornerOffsets[i], value |-> v[i]]] :
        v \in [1..8 -> SweepValues]}

(* The call polygonise(cell_points, iso_level) of line 214.                *)
polygonise_cell ==
    /\ pc = "cell_sampled"
    /\ triangles' = polygonise(cell, IsoLevel, tri_table)
    /\ pc' = "polygonised"
    /\ UNCHANGED <<program, chunk_view_distance, cameras, chunks, entities, tasks,
                   buffers, closed, commands, visible, polled, despawns, faults,
                   next_entity, map_failures>>
    /\ UNCHANGED <<chunk_size, seed, builds, cell, tri_table, cube, mesh>>

(* The compute kernel's result for one cell (assets/chunk.wgsl, as spec    *)
(* 4.4 states it): the count of the cell's triangles and the triangles in  *)
(* the leading slots of the 5.                                             *)
WriteCube(tris) ==
    [triangle_count |-> Len(tris),
     triangles |-> [i \in 0..4 |-> IF i < Len(tris) THEN tris[i + 1] ELSE ZeroTriangle]]

(* The dispatch of lines 456-476 for one cell of the grid.                 *)
dispatch_cell ==
    /\ pc = "cell_sampled"
    /\ cube' = WriteCube(polygonise(cell, IsoLevel, tri_table))
    /\ pc' = "cube_written"
    /\ UNCHANGED <<program, chunk_view_distance, cameras, chunks, entities, tasks,
                   buffers, closed, commands, visible, polled, despawns, faults,
                   next_entity, map_failures>>
    /\ UNCHANGED <<chunk_size, seed, builds, cell, tri_table, triangles, mesh>>

(* A variant loop that runs up to and including triangle_count.            *)
ReadSlotsInclusive(c) == 0..c.triangle_count

(* The slots the loop of line 495 indexes: 0 .. triangle_count - 1.        *)
ReadSlots(c) == 0..(c.triangle_count - 1)

(* Lines 492-497: the readback of one cube pushes the slots the loop       *)
(* indexes, in order; an index outside the 5 slots panics.                 *)
read_cube ==
    /\ pc = "cube_written"
    /\ IF ReadSlots(cube) \subseteq DOMAIN cube.triangles
       THEN /\ triangles' = [k \in 1..Cardinality(ReadSlots(cube)) |-> cube.triangles[k - 1]]
            /\ pc' = "cube_read"
       ELSE /\ triangles' = triangles
            /\ pc' = "panicked"
    /\ UNCHANGED <<program, chunk_view_distance, cameras, chunks, entities, tasks,
                   buffers, closed, commands, visible, polled, despawns, faults,
                   next_entity, map_failures>>
    /\ UNCHANGED <<chunk_size, seed, builds, cell, tri_table, cube, mesh>>

InitPolygonise ==
    /\ program = "terrain"
    /\ chunk_view_distance = 0
    /\ cameras = {}
    /\ Empty
    /\ chunk_size = ChunkSize
    /\ seed = 0
    /\ tri_table \in 1..MaxTables
    /\ builds = <<>>
    /\ cell \in SweepCells
    /\ triangles = <<>>
    /\ cube = ZeroCube
    /\ mesh = NewMesh
    /\ pc = "cell_sampled"

NextPolygonise == polygonise_cell \/ dispatch_cell \/ read_cube

SpecPolygonise == InitPolygonise /\ [][NextPolygonise]_vars

----------------------------------------------------------------------------
(* Properties.                                                             *)

Square(n) == n * n

(* The integer coordinates within squared distance v * v of c.             *)
Sphere(c, v) ==
    {<<c[1] + dx, c[2] + dy, c[3] + dz>> : <<dx, dy, dz>> \in
        {d \in ((-v)..v) \X ((-v)..v) \X ((-v)..v) :
            Square(d[1]) + Square(d[2]) + Square(d[3]) <= Square(v)}}

DespawnCommands(cmds, e) ==
    Cardinality({k \in DOMAIN cmds : cmds[k].op = "despawn" /\ cmds[k].entity = e})

SpawnCommands(cmds, c) ==
    Cardinality({k \in DOMAIN cmds : cmds[k].op = "spawn" /\ cmds[k].coords = c})

BufferLogs == {buffers[e] : e \in DOMAIN buffers} \cup closed

Last(log) == log[Len(log)]

Has(log, op) == \E k \in DOMAIN log : log[k] = op

(* The state of coordinate c under registry reg and world ents: Absent     *)
(* without a registry entry, Ready when the entry's entity holds geometry, *)
(* Generating otherwise.                                                   *)
ChunkState(reg, ents, c) ==
    IF c \notin DOMAIN reg THEN "Absent"
    ELSE IF reg[c] \in DOMAIN ents /\ ents[reg[c]].mesh /= NoMesh THEN "Ready"
    ELSE "Generating"

UpdateChunksStep == pc = "update_chunks" /\ pc' = "handle_terrain_chunk_tasks"

HandleStep == pc = "handle_terrain_chunk_tasks" /\ pc' = "apply_commands"

ApplyStep == pc = "apply_commands" /\ pc' /= "apply_commands"

(* C1: for one camera, the visible set update_chunks computes is exactly   *)
(* the set of coordinates within squared distance V * V of the camera's    *)
(* chunk coordinate.                                                       *)
C1_VisibleIsSphere ==
    pc = "visible_computed" =>
        \A t \in cameras : cameras = {t} =>
            visible = Sphere(get_chunk_coords_at_translation(t), chunk_view_distance)

(* C2: a coordinate with a registry entry that is not in the visible set   *)
(* a frame computes leaves the registry in update_chunks with exactly one  *)
(* despawn queued for its entity; when the frame's commands are applied    *)
(* every entity whose coordinate was not visible is gone, despawned once,  *)
(* whether or not its task had finished; no entity is despawned twice.     *)
C2_Step ==
    /\ UpdateChunksStep =>
          \A c \in DOMAIN chunks : c \notin visible' =>
              /\ c \notin DOMAIN chunks'
              /\ DespawnCommands(commands', chunks[c]) = 1
    /\ ApplyStep /\ program = "terrain" =>
          \A e \in DOMAIN entities : entities[e].coords \notin visible =>
              /\ e \notin DOMAIN entities'
              /\ Count(despawns', e) = 1
              /\ entities[e].coords \notin DOMAIN chunks'
    /\ \A e \in DOMAIN despawns : despawns'[e] = 1
    /\ \A f \in faults' : f[1] /= "despawn_missing"

C2_EvictedExactlyOnce == [][C2_Step]_vars

(* Reached: a chunk was evicted while its task was still awaiting the map. *)
C2_Witness ==
    /\ pc = "update_chunks"
    /\ \E e \in DOMAIN despawns : despawns[e] = 1
    /\ \E log \in closed : Last(log) = "drop"

(* C3: a coordinate never goes from Absent to Ready in one step, never     *)
(* from Ready to Generating, and stays Ready only with the same entity.    *)
C3_Step ==
    \A c \in DOMAIN chunks \cup DOMAIN chunks' :
        LET before == ChunkState(chunks, entities, c)
            after == ChunkState(chunks', entities', c)
        IN /\ ~(before = "Absent" /\ after = "Ready")
           /\ ~(before = "Ready" /\ after = "Generating")
           /\ before = "Ready" /\ after = "Ready" => chunks'[c] = chunks[c]
           /\ before = "Generating" /\ after = "Generating" => chunks'[c] = chunks[c]

C3_ChunkStateMachine == [][C3_Step]_vars

(* Reached: a coordinate is Ready in a registry that has seen a removal    *)
(* and a later spawn.                                                      *)
C3_Witness ==
    /\ \E c \in DOMAIN chunks :
          /\ ChunkState(chunks, entities, c) = "Ready"
          /\ \E e \in DOMAIN despawns : e < chunks[c]

(* C4: update_chunks spawns exactly one task and queues exactly one spawn  *)
(* for each visible coordinate without a registry entry, enters it in the  *)
(* registry, and does neither for any other coordinate.                    *)
C4_Step ==
    UpdateChunksStep =>
        LET fresh == DOMAIN tasks' \ DOMAIN tasks
            queued == {k \in DOMAIN commands' : commands'[k].op = "spawn"}
            need == visible' \ DOMAIN chunks
        IN /\ \A c \in need :
                /\ Cardinality({e \in fresh : tasks'[e].coords = c}) = 1
                /\ SpawnCommands(commands', c) = 1
                /\ c \in DOMAIN chunks'
                /\ chunks'[c] \in fresh
                /\ tasks'[chunks'[c]].coords = c
                /\ \E k \in queued : commands'[k].entity = chunks'[c]
                                     /\ commands'[k].coords = c
           /\ \A e \in fresh : tasks'[e].coords \in need
           /\ \A k \in queued : commands'[k].coords \in need
           /\ \A c \in DOMAIN chunks' \ need : c \in DOMAIN chunks /\ chunks'[c] = chunks[c]

C4_SpawnsEachNewlyVisible == [][C4_Step]_vars

(* Reached: a frame spawned two coordinates at once while keeping a third. *)
C4_Witness ==
    /\ pc = "handle_terrain_chunk_tasks"
    /\ Cardinality({k \in DOMAIN commands : commands[k].op = "spawn"}) >= 2
    /\ next_entity > 3

(* C5: no two live entities, and no two live tasks, carry the same         *)
(* coordinate, and no frame queues both the despawn and the spawn of one   *)
(* coordinate.                                                             *)
C5_OneEntityPerCoordinate ==
    /\ \A e1, e2 \in DOMAIN entities :
          entities[e1].coords = entities[e2].coords => e1 = e2
    /\ \A e1, e2 \in DOMAIN tasks : tasks[e1].coords = tasks[e2].coords => e1 = e2
    /\ \A j, k \in DOMAIN commands :
          commands[j].op = "despawn" /\ commands[k].op = "spawn"
              /\ commands[j].entity \in DOMAIN entities
          => entities[commands[j].entity].coords /= commands[k].coords

(* Reached: one frame queues a despawn and a spawn, of two coordinates.    *)
C5_Witness ==
    /\ \E j, k \in DOMAIN commands :
          commands[j].op = "despawn" /\ commands[k].op = "spawn"
    /\ Cardinality(DOMAIN entities) >= 2

PollSystems == {"handle_terrain_chunk_tasks", "update_terrain", "gpu_update"}

PollStep == pc \in PollSystems /\ pc' = "apply_commands"

InsertCommands(cmds, e, m) ==
    Cardinality({k \in DOMAIN cmds :
        cmds[k].op = "insert_bundle" /\ cmds[k].entity = e /\ cmds[k].mesh = m})

RemoveTaskCommands(cmds, e) ==
    Cardinality({k \in DOMAIN cmds : cmds[k].op = "remove_task" /\ cmds[k].entity = e})

InRegistry(e) == program = "terrain" => has_chunk(chunks, entities[e].coords)

(* C6: when the frame's poll finds a task finished and the chunk is in the *)
(* registry, the frame queues the attachment of the task's payload to the  *)
(* task's own entity and the removal of its Task; once the frame's         *)
(* commands are applied the entity holds that geometry and no Task.        *)
C6_Step ==
    program \in {"terrain", "terrain_mod"} =>
        /\ PollStep =>
              \A e \in TaskHolders : PollReady(e) /\ InRegistry(e) =>
                  /\ InsertCommands(commands', e, [task |-> e, filled |-> tasks[e].ok]) = 1
                  /\ RemoveTaskCommands(commands', e) = 1
        /\ ApplyStep =>
              \A e \in TaskHolders :
                  e \in DOMAIN tasks /\ tasks[e].state = "taken" /\ InRegistry(e) =>
                      /\ e \in DOMAIN entities'
                      /\ entities'[e].mesh = [task |-> e, filled |-> tasks[e].ok]
                      /\ ~entities'[e].task
                      /\ e \notin DOMAIN tasks'
                      /\ program = "terrain" =>
                            ChunkState(chunks', entities', entities[e].coords) = "Ready"

C6_AttachedWhenComplete == [][C6_Step]_vars

(* Reached: a streamed chunk holds geometry and no Task.                   *)
C6_Witness ==
    /\ program = "terrain"
    /\ \E c \in DOMAIN chunks :
          /\ ChunkState(chunks, entities, c) = "Ready"
          /\ ~entities[chunks[c]].task
          /\ entities[chunks[c]].mesh.task = chunks[c]

(* C7: the result handling of a frame is always able to run, polls every   *)
(* entity that holds a Task once, leaves an unfinished task unfinished,    *)
(* and queues geometry only for tasks the poll found finished; geometry    *)
(* reaches an entity only from a task polled finished in that frame.       *)
C7_Step ==
    /\ PollStep =>
          /\ DOMAIN polled' = TaskHolders
          /\ \A e \in TaskHolders : polled'[e] = 1
          /\ \A e \in DOMAIN tasks :
                tasks[e].state = "awaiting_map" => tasks'[e].state = "awaiting_map"
          /\ \A k \in DOMAIN commands' \ DOMAIN commands :
                commands'[k].op = "insert_bundle" =>
                    /\ commands'[k].entity \in TaskHolders
                    /\ PollReady(commands'[k].entity)
    /\ ApplyStep =>
          \A e \in DOMAIN entities' :
              e \in DOMAIN entities /\ entities'[e].mesh /= entities[e].mesh =>
                  /\ Count(polled, e) = 1
                  /\ e \in DOMAIN tasks /\ tasks[e].state = "taken"

Finished(e) == e \in DOMAIN tasks /\ tasks[e].state \in {"finished", "taken"}

Owned(e) == \E c \in DOMAIN chunks : chunks[c] = e

ReadyEntity(e) ==
    e \in DOMAIN entities /\ entities[e].mesh /= NoMesh /\ ~entities[e].task

Pending(e) == Finished(e) /\ Owned(e) /\ ~ReadyEntity(e)

(* C8: with the frames running fairly, a chunk whose task has finished     *)
(* does not stay without geometry: it leaves that condition, and leaves it *)
(* only by becoming Ready or by its coordinate being evicted.  A Ready     *)
(* chunk that a frame finds visible stays Ready with the same entity, and  *)
(* no task is spawned for its coordinate.                                  *)
C8_StaysStep ==
    \A c \in DOMAIN chunks :
        ChunkState(chunks, entities, c) = "Ready" /\ (UpdateChunksStep => c \in visible')
        => /\ ChunkState(chunks', entities', c) = "Ready"
           /\ chunks'[c] = chunks[c]
           /\ \A e \in DOMAIN tasks' \ DOMAIN tasks : tasks'[e].coords /= c

C8_LeavesStep ==
    \A e \in DOMAIN tasks :
        Pending(e) /\ ~Pending(e)' => ReadyEntity(e)' \/ ~Owned(e)'

C8_FinishedBecomesReady ==
    /\ \A e \in 1..MaxEntities : []<>~Pending(e)
    /\ [][C8_StaysStep /\ C8_LeavesStep]_vars

(* Reached: a chunk spawned after an eviction is Ready in a frame that     *)
(* finds it visible.                                                       *)
C8_Witness ==
    /\ pc = "handle_terrain_chunk_tasks"
    /\ \E c \in DOMAIN chunks \cap visible :
          /\ ReadyEntity(chunks[c])
          /\ DOMAIN despawns /= {}

(* C9: no streamed chunk becomes Ready from a generation whose transfer    *)
(* failed: geometry is attached only from a transfer that succeeded.       *)
C9_FailedTransferNeverReady ==
    program = "terrain" =>
        \A c \in DOMAIN chunks :
            ChunkState(chunks, entities, c) = "Ready" => entities[chunks[c]].mesh.filled

(* C10: a transfer buffer whose map request failed is never read, and no   *)
(* mesh is handed on from it.                                              *)
C10_FailedMapNeverRead ==
    /\ \A log \in BufferLogs : Has(log, "map_err") => ~Has(log, "get_mapped_range")
    /\ \A k \in DOMAIN commands :
          commands[k].op = "insert_bundle" => commands[k].mesh.filled

MapResults == {"map_ok", "map_err"}

(* C11: on every transfer buffer, each read of the mapped range comes      *)
(* after the resolution (with Ok or with an error) of the map request      *)
(* made for that buffer, and the request is the first thing done to it.    *)
C11_ReadOnlyAfterMapResolves ==
    \A log \in BufferLogs :
        /\ log[1] = "map_async"
        /\ \A k \in DOMAIN log : log[k] = "get_mapped_range" =>
              \E j \in 1..(k - 1) : log[j] \in MapResults

(* Reached: in terrain/mod.rs a buffer was read after its map request     *)
(* resolved with Ok.                                                       *)
C11_Witness ==
    /\ program = "terrain_mod"
    /\ \E log \in BufferLogs :
          \E j, k \in DOMAIN log :
              j < k /\ log[j] = "map_ok" /\ log[k] = "get_mapped_range"

Occurrences(log, op) == Cardinality({k \in DOMAIN log : log[k] = op})

(* The entities whose generation has handed its result on: in terrain.rs   *)
(* the task's body has returned the payload; in terrain/mod.rs and main.rs *)
(* the handler has taken the request's result and dealt with the buffer.   *)
HandedBack ==
    {e \in DOMAIN tasks \cap DOMAIN buffers :
        IF program = "terrain" THEN tasks[e].state \in {"finished", "taken"}
        ELSE tasks[e].state = "taken"}

(* C12: no transfer buffer is unmapped or destroyed twice; an unmap comes  *)
(* after the map request resolved and after the read of the range, never   *)
(* before it; a buffer that was read is unmapped; and when a generation    *)
(* hands its result on, its buffer has been unmapped exactly once.         *)
C12_ReleasedOnceAfterCopy ==
    /\ \A log \in BufferLogs :
          /\ Occurrences(log, "unmap") <= 1
          /\ Occurrences(log, "destroy") <= 1
          /\ Has(log, "get_mapped_range") => Has(log, "unmap")
          /\ \A k \in DOMAIN log : log[k] = "unmap" =>
                /\ \E j \in 1..(k - 1) : log[j] \in MapResults
                /\ \A j \in (k + 1)..Len(log) : log[j] /= "get_mapped_range"
          /\ \A k \in DOMAIN log : log[k] = "destroy" =>
                \E j \in 1..(k - 1) : log[j] = "unmap"
    /\ \A e \in HandedBack : Occurrences(buffers[e], "unmap") = 1

(* Reached: a streamed chunk's task has returned its payload, its buffer   *)
(* read, then unmapped, then destroyed.                                    *)
C12_Witness ==
    /\ program = "terrain"
    /\ \E e \in HandedBack :
          buffers[e] = <<"map_async", "map_ok", "get_mapped_range", "unmap", "destroy">>

(* An entity of terrain.rs that update_chunks has evicted and whose task's *)
(* buffer is still held.                                                   *)
EvictedHolding(e) ==
    program = "terrain" /\ e \in DOMAIN entities /\ e \in DOMAIN buffers /\ ~Owned(e)

Releases == {"destroy", "drop"}

(* C13: in terrain.rs a transfer buffer is held only by a live task; when  *)
(* the frame's commands are applied, the buffer of every task they drop,   *)
(* finished or still awaiting the map, ends destroyed or dropped with the  *)
(* task; an evicted entity does not keep its buffer; and no command is     *)
(* applied to an entity that is gone, nor a completed task polled again.   *)
C13_ReleaseStep ==
    program = "terrain" /\ ApplyStep =>
        /\ \A e \in DOMAIN buffers \ DOMAIN buffers' :
              \E log \in closed' :
                  /\ Last(log) \in Releases
                  /\ \E n \in 0..1 : SubSeq(log, 1, Len(log) - n) = buffers[e]
        /\ \A e \in DOMAIN entities \ DOMAIN entities' : e \notin DOMAIN buffers'

C14_Step ==
    /\ chunks' /= chunks => program = "terrain" /\ UpdateChunksStep
    /\ \A e \in DOMAIN tasks' \ DOMAIN tasks :
          program = "terrain" =>
              /\ tasks'[e].coords \in DOMAIN chunks'
              /\ chunks'[tasks'[e].coords] = e
    /\ \A e \in DOMAIN tasks \cap DOMAIN tasks' :
          /\ tasks'[e].coords = tasks[e].coords
          /\ tasks[e].state = "awaiting_map" /\ tasks'[e].state = "finished" =>
                /\ chunks' = chunks
                /\ entities' = entities
                /\ commands' = commands

C14_RegistryOnlyByUpdateChunks == [][C14_Step]_vars

(* Reached: a task finished and a handler queued its result while the      *)
(* registry held its chunk.                                                *)
C14_Witness ==
    /\ program = "terrain"
    /\ pc = "apply_commands"
    /\ \E k \in DOMAIN commands :
          /\ commands[k].op = "insert_bundle"
          /\ has_chunk(chunks, commands[k].coords)
          /\ chunks[commands[k].coords] = commands[k].entity

(* C15: the visible set computed with a view distance contains the visible *)
(* set computed, for the same cameras, with every smaller view distance.   *)
C15_VisibleMonotone ==
    pc = "visible_computed" =>
        \A v1 \in 0..chunk_view_distance :
            VisibleChunkCoords(cameras, v1) \subseteq visible

(* Reached: a visible set that is strictly larger than the one of the      *)
(* view distance below it.                                                 *)
C15_Witness ==
    /\ pc = "visible_computed"
    /\ chunk_view_distance >= 2
    /\ Cardinality(cameras) = 1
    /\ VisibleChunkCoords(cameras, chunk_view_distance - 1) /= visible
    /\ VisibleChunkCoords(cameras, chunk_view_distance - 1) \subseteq visible

(* C16: with view distance 0 the visible set holds the chunk coordinate of *)
(* each camera and nothing else: one coordinate for one camera, (0,0,0)    *)
(* for a camera at the origin.                                             *)
C16_ZeroDistanceOwnChunk ==
    pc = "visible_computed" /\ chunk_view_distance = 0 =>
        /\ visible = {get_chunk_coords_at_translation(t) : t \in cameras}
        /\ cameras = {<<0, 0, 0>>} => visible = {<<0, 0, 0>>}

(* Reached: the visible set of a camera at the origin with view distance 0. *)
C16_Witness ==
    /\ pc = "visible_computed"
    /\ chunk_view_distance = 0
    /\ cameras = {<<0, 0, 0>>}
    /\ visible = {<<0, 0, 0>>}

(* C17: the mesh built from T triangles, by the task of update_chunks and  *)
(* by generate_mesh alike, has 3 * T positions, the corners a, b, c of the *)
(* triangles in order; indices 0, 1, ..., 3 * T - 1; 3 * T UVs (0, 0); and *)
(* 3 * T normals, those of a triangle's three vertices all equal to        *)
(* normalize(cross(b - a, c - a)) of that triangle.                        *)
C17_MeshLayout ==
    pc \in {"readback_built", "builder_built"} =>
        LET T == Len(triangles)
        IN /\ Len(mesh.positions) = 3 * T
           /\ Len(mesh.indices) = 3 * T
           /\ Len(mesh.uvs) = 3 * T
           /\ Len(mesh.normals) = 3 * T
           /\ \A i \in 1..(3 * T) : mesh.indices[i] = i - 1 /\ mesh.uvs[i] = <<0, 0>>
           /\ \A t \in 1..T :
                 LET tri == triangles[t]
                     n == VNormalize(VCross(VSub(tri.b, tri.a), VSub(tri.c, tri.a)))
                 IN /\ mesh.positions[3 * t - 2] = tri.a
                    /\ mesh.positions[3 * t - 1] = tri.b
                    /\ mesh.positions[3 * t] = tri.c
                    /\ mesh.normals[3 * t - 2] = n
                    /\ mesh.normals[3 * t - 1] = n
                    /\ mesh.normals[3 * t] = n

(* Reached: the readback's mesh of two triangles with different normals.   *)
C17_Witness ==
    /\ pc = "readback_built"
    /\ Len(triangles) = 2
    /\ Len(mesh.normals) = 6
    /\ mesh.normals[1] /= mesh.normals[4]
    /\ mesh.normals[1] /= NaNVector
    /\ mesh.normals[4] /= NaNVector

(* C18: two builds of the same chunk coordinate, whatever was built        *)
(* between them, return identical index, position, normal and UV arrays    *)
(* from identical samples; a build adds its result and changes nothing     *)
(* else: not the registry, the world, the tasks, nor an earlier result.    *)
C18_Step ==
    builds' /= builds =>
        /\ Len(builds') = Len(builds) + 1
        /\ SubSeq(builds', 1, Len(builds)) = builds
        /\ UNCHANGED <<stream_vars, chunk_size, seed, tri_table>>

WorldPosition(b, s) == VAdd(s.corner, ChunkTransform(b.coords, chunk_size))

Axes == {<<1, 0, 0>>, <<0, 1, 0>>, <<0, 0, 1>>}

AxisOf(u) == CHOOSE i \in 1..3 : u[i] = 1

(* The samples of build b on its face at corner[i] = h.                    *)
Face(b, i, h) == {s \in b.samples : s.corner[i] = h}

(* C19: every corner of every built chunk is sampled at its position in    *)
(* the chunk plus coords * chunk_size - chunk_size / 2, which is its world *)
(* position minus chunk_size / 2 on each axis; the task's input position   *)
(* is that same offset; and of two built chunks adjacent along an axis,    *)
(* the corners of the shared face have the same world positions and are    *)
(* sampled at the same positions.                                          *)
C19_ContinuousSampling ==
    pc = "builder" =>
        /\ \A k \in DOMAIN builds :
              LET b == builds[k]
                  R == chunk_size
                  half == <<R, R, R>>
              IN /\ b.samples /= {}
                 /\ InputPosition(b.coords, R) = TranslationOffset(b.coords, R)
                 /\ \A s \in b.samples :
                       /\ s.sampled = VAdd(s.corner,
                                           <<2 * b.coords[1] * R - R, 2 * b.coords[2] * R - R,
                                             2 * b.coords[3] * R - R>>)
                       /\ s.sampled = VSub(WorldPosition(b, s), half)
        /\ \A j, k \in DOMAIN builds : \A u \in Axes :
              builds[k].coords = VAdd(builds[j].coords, u) =>
                  LET i == AxisOf(u)
                      high == Face(builds[j], i, chunk_size)
                      low == Face(builds[k], i, -chunk_size)
                  IN /\ high /= {}
                     /\ {WorldPosition(builds[j], s) : s \in high}
                            = {WorldPosition(builds[k], s) : s \in low}
                     /\ {s.sampled : s \in high} = {s.sampled : s \in low}
                     /\ \A s \in high, t \in low :
                           WorldPosition(builds[j], s) = WorldPosition(builds[k], t)
                               => s.sampled = t.sampled

(* Reached: the chunk at the origin and its neighbour along x, both built. *)
C19_Witness ==
    /\ pc = "builder"
    /\ Len(builds) = 2
    /\ builds[1].coords = <<0, 0, 0>>
    /\ builds[2].coords = <<1, 0, 0>>
    /\ Face(builds[1], 1, chunk_size) /= {}
    /\ chunk_size = 2

(* The configuration index of the sweep's cell: bit i is set iff corner i  *)
(* is below the iso-level.                                                 *)
Below == {i \in Corners : cell[i + 1].value < IsoLevel}

CellConfig == CHOOSE n \in 0..255 : \A i \in Corners : Bit(n, i) <=> i \in Below

(* The triples of an entry before its first sentinel.                      *)
TripleCount(row) ==
    LET first == CHOOSE i \in DOMAIN row :
                    row[i] = Sentinel /\ \A j \in 1..(i - 1) : row[j] /= Sentinel
    IN (first - 1) \div 3

(* The crossing point of edge e of the sweep's cell.                       *)
EdgePoint(e) ==
    LET a == cell[EdgeCorners[e + 1][1] + 1]
        b == cell[EdgeCorners[e + 1][2] + 1]
    IN Interpolate(IsoLevel, a.position, b.position, a.value, b.value)

(* C20: for the cell of each of the 256 configurations, polygonise returns *)
(* as many triangles as the configuration's table entry has triples before *)
(* the sentinel, the j-th triangle made of the crossing points of the      *)
(* three edges the j-th triple names, in the triple's order.               *)
C20_TrianglesFollowTable ==
    pc = "polygonised" =>
        LET row == TriTable(tri_table, CellConfig)
        IN /\ Len(triangles) = TripleCount(row)
           /\ \A j \in 1..TripleCount(row) :
                 /\ triangles[j].a = EdgePoint(row[3 * j - 2])
                 /\ triangles[j].b = EdgePoint(row[3 * j - 1])
                 /\ triangles[j].c = EdgePoint(row[3 * j])

(* Reached: a configuration whose entry has five triples, polygonised.     *)
C20_Witness ==
    /\ pc = "polygonised"
    /\ TripleCount(TriTable(tri_table, CellConfig)) = 5
    /\ Len(triangles) = 5
    /\ triangles[1] /= triangles[5]

(* C21: a cell whose 8 corner values are all below the iso-level, or all   *)
(* at or above it (configuration 0xFF or 0x00), polygonises to no          *)
(* triangle; so does the cell with every value 1.0 at iso-level 0.7.       *)
C21_SameSideNoTriangles ==
    pc = "polygonised" =>
        /\ (Below = Corners \/ Below = {}) => triangles = <<>>
        /\ CellConfig \in {0, 255} => triangles = <<>>
        /\ (\A i \in Corners : cell[i + 1].value = 10) => triangles = <<>>

(* Reached: the cell with every value 1.0, polygonised to nothing, and a   *)
(* cell of configuration 0x00 with values at and above the iso-level.      *)
C21_Witness ==
    /\ pc = "polygonised"
    /\ triangles = <<>>
    /\ CellConfig = 0
    /\ cell[1].value = IsoLevel
    /\ cell[2].value = 10

(* Reached: the cell with every value below the iso-level (0xFF).          *)
C21_WitnessInside ==
    /\ pc = "polygonised"
    /\ triangles = <<>>
    /\ CellConfig = 255

ComplementCell ==
    [i \in 1..8 |-> [position |-> cell[i].position,
                     value |-> IF cell[i].value < IsoLevel THEN 10 ELSE 0]]

(* C23: the edge-table entry of a configuration index i and the entry of   *)
(* its bitwise complement 255 - i are the same edge mask; the cell with    *)
(* every corner on the other side has the complement's index.              *)
C23_ComplementSameEdgeMask ==
    pc = "polygonised" =>
        /\ ConfigIndex(ComplementCell, IsoLevel) = 255 - ConfigIndex(cell, IsoLevel)
        /\ EdgeMask(255 - ConfigIndex(cell, IsoLevel)) = EdgeMask(ConfigIndex(cell, IsoLevel))

(* Reached: the cell with only corner 0 below the iso-level, polygonised;  *)
(* its entry and that of 0xFE both flag edges 0, 3 and 8.                  *)
C23_Witness ==
    /\ pc = "polygonised"
    /\ ConfigIndex(cell, IsoLevel) = 1
    /\ EdgeMask(1) = {0, 3, 8}
    /\ EdgeMask(254) = {0, 3, 8}
    /\ Len(triangles) = 1

(* The values at the two corners of edge e of the sweep's cell.            *)
ValueA(e) == cell[EdgeCorners[e + 1][1] + 1].value

ValueB(e) == cell[EdgeCorners[e + 1][2] + 1].value

(* t = (iso_level - value_a) / (value_b - value_a) lies in [0, 1].         *)
TInUnit(e) ==
    LET num == IsoLevel - ValueA(e)
        den == ValueB(e) - ValueA(e)
    IN \/ den > 0 /\ 0 <= num /\ num <= den
       \/ den < 0 /\ den <= num /\ num <= 0

(* p lies on the segment between the two corners of edge e; the edges are  *)
(* parallel to the axes, so the segment is its own bounding box.           *)
OnSegment(p, e) ==
    LET pa == cell[EdgeCorners[e + 1][1] + 1].position
        pb == cell[EdgeCorners[e + 1][2] + 1].position
    IN \A i \in 1..3 :
          /\ PointScale * Min(pa[i], pb[i]) <= p[i]
          /\ p[i] <= PointScale * Max(pa[i], pb[i])

(* C24: on every edge flagged as crossed the two values differ and          *)
(* t = (iso_level - value_a) / (value_b - value_a) is in [0, 1]; every      *)
(* vertex polygonise emits lies on the segment of the edge its table entry *)
(* names; on an edge of equal values the crossing point is computed        *)
(* without a division by zero and lies on the segment too.                 *)
C24_CrossingOnSegment ==
    pc = "polygonised" =>
        LET row == TriTable(tri_table, CellConfig)
        IN /\ \A e \in EdgeMask(CellConfig) : ValueA(e) /= ValueB(e) /\ TInUnit(e)
           /\ \A j \in 1..Len(triangles) :
                 /\ OnSegment(triangles[j].a, row[3 * j - 2])
                 /\ OnSegment(triangles[j].b, row[3 * j - 1])
                 /\ OnSegment(triangles[j].c, row[3 * j])
           /\ \A e \in Edges : ValueA(e) = ValueB(e) => OnSegment(EdgePoint(e), e)

(* Reached: a polygonised cell with a crossed edge of t = 1, one of t = 0  *)
(* and one of t strictly between, all three named by its first triangle.   *)
C24_Witness ==
    /\ pc = "polygonised"
    /\ Len(triangles) >= 1
    /\ LET row == TriTable(tri_table, CellConfig)
           first == {row[1], row[2], row[3]}
       IN /\ \E e \in first : ValueA(e) = 0 /\ ValueB(e) = IsoLevel
          /\ \E e \in first : ValueA(e) = IsoLevel /\ ValueB(e) = 0
          /\ \E e \in first : ValueA(e) = 10 /\ ValueB(e) = 0

(* C25: at the start of every tick the registry's keys are the            *)
(* coordinates of the live chunk entities, one entity per key, and the     *)
(* registry's value for a key is that entity; so the spawn list that       *)
(* update_chunks derives from the entity query is the visible set minus    *)
(* the registry's keys, and the coordinates it evicts are the registry's   *)
(* keys minus the visible set.                                             *)
C25_RegistryMirrorsEntities ==
    (program = "terrain" /\ pc = "update_chunks") =>
        LET vis == VisibleChunkCoords(cameras, chunk_view_distance)
        IN /\ DOMAIN chunks = LiveCoords
           /\ \A c \in DOMAIN chunks :
                 /\ chunks[c] \in DOMAIN entities
                 /\ entities[chunks[c]].coords = c
           /\ \A e1, e2 \in DOMAIN entities :
                 entities[e1].coords = entities[e2].coords => e1 = e2
           /\ SpawnCoords(vis) = vis \ DOMAIN chunks
           /\ {entities[e].coords : e \in EvictedEntities(vis)} = DOMAIN chunks \ vis

(* Reached: the start of a tick with a chunk to keep, a chunk to evict and *)
(* a coordinate to spawn.                                                  *)
C25_Witness ==
    /\ program = "terrain"
    /\ pc = "update_chunks"
    /\ LET vis == VisibleChunkCoords(cameras, chunk_view_distance)
       IN /\ DOMAIN chunks \cap vis /= {}
          /\ DOMAIN chunks \ vis /= {}
          /\ vis \ DOMAIN chunks /= {}

(* The insert_bundle commands a step queued.                               *)
QueuedInserts == {k \in DOMAIN commands' \ DOMAIN commands : commands'[k].op = "insert_bundle"}

(* C26: the result handling attaches a finished task's geometry only to    *)
(* the entity that owns the task, and only while the registry holds that   *)
(* entity at its coordinate; a task polled finished in the tick that       *)
(* evicted its chunk has its result taken and discarded; an entity never   *)
(* holds geometry that another entity's task produced.                     *)
C26_Step ==
    program = "terrain" =>
        /\ HandleStep =>
              /\ \A k \in QueuedInserts :
                    LET e == commands'[k].entity
                    IN /\ e \in TaskHolders
                       /\ tasks[e].state = "finished"
                       /\ commands'[k].mesh.task = e
                       /\ has_chunk(chunks, entities[e].coords)
                       /\ chunks[entities[e].coords] = e
                       /\ DespawnCommands(commands, e) = 0
              /\ \A e \in TaskHolders :
                    PollReady(e) /\ DespawnCommands(commands, e) > 0 =>
                        /\ \A k \in QueuedInserts : commands'[k].entity /= e
                        /\ tasks'[e].state = "taken"
        /\ ApplyStep =>
              \A e \in DOMAIN entities' :
                  e \in DOMAIN entities /\ entities'[e].mesh /= entities[e].mesh =>
                      /\ entities'[e].mesh.task = e
                      /\ has_chunk(chunks, entities[e].coords)
                      /\ chunks[entities[e].coords] = e

C26_AttachedOnlyToRegisteredOwner ==
    /\ [](program = "terrain" =>
            \A e \in DOMAIN entities :
                entities[e].mesh /= NoMesh => entities[e].mesh.task = e)
    /\ [][C26_Step]_vars

(* Reached: the commands of a tick that evicted a chunk whose task the     *)
(* tick's poll found finished: the result is taken and nothing is queued   *)
(* for the entity but its despawn, with another chunk despawned before.    *)
C26_Witness ==
    /\ program = "terrain"
    /\ pc = "apply_commands"
    /\ \E e \in TaskHolders :
          /\ e \in DOMAIN tasks /\ tasks[e].state = "taken"
          /\ DespawnCommands(commands, e) = 1
          /\ \A k \in DOMAIN commands :
                commands[k].entity = e => commands[k].op = "despawn"
          /\ ~has_chunk(chunks, entities[e].coords)
    /\ DOMAIN despawns /= {}

(* Tasks whose result a poll has returned.                                 *)
TakenTasks == {e \in DOMAIN tasks : tasks[e].state = "taken"}

(* C27: no Task is polled after a poll of it returned its result: when the *)
(* commands of the tick that took the result are applied, the entity has   *)
(* lost its Task or is gone, also when the result was discarded; so no     *)
(* tick starts with an entity holding a Task whose result was taken.       *)
C27_Step ==
    /\ ApplyStep =>
          \A e \in TakenTasks : e \notin DOMAIN entities' \/ ~entities'[e].task
    /\ PollStep =>
          \A e \in TaskHolders : e \notin TakenTasks

C27_NeverPolledAfterResult ==
    /\ [](\A e \in 1..MaxEntities : <<"poll_after_completion", e>> \notin faults)
    /\ [](pc \in PollSystems \cup {"update_chunks"} => TaskHolders \cap TakenTasks = {})
    /\ [][C27_Step]_vars

(* Reached: a tick's result handling about to poll, with one entity whose  *)
(* result was taken in an earlier tick and whose Task is gone, an entity   *)
(* still holding its Task, and an entity despawned before.                 *)
C27_Witness ==
    /\ program = "terrain"
    /\ pc = "handle_terrain_chunk_tasks"
    /\ \E e \in DOMAIN entities : ~entities[e].task /\ entities[e].mesh.task = e
    /\ TaskHolders /= {}
    /\ DOMAIN despawns /= {}

(* C28: unmap and destroy are called on a transfer buffer only after its   *)
(* map request completed with Ok; on a buffer whose map request failed the *)
(* mapped range is not taken and unmap is not called.                      *)
C28_ReleasedOnlyWhenMapped ==
    \A log \in BufferLogs :
        /\ \A k \in DOMAIN log : log[k] \in {"unmap", "destroy"} =>
              \E j \in 1..(k - 1) : log[j] = "map_ok"
        /\ Has(log, "map_err") =>
              ~Has(log, "get_mapped_range") /\ ~Has(log, "unmap")

(* C29: every coordinate update_chunks puts in the visible set for a       *)
(* camera lies within squared distance V * V of that camera's chunk        *)
(* coordinate, for every view distance V >= 0: the visible set is inside   *)
(* the union of the cameras' view spheres.                                 *)
C29_VisibleInsideSphere ==
    pc = "visible_computed" =>
        /\ \A t \in cameras :
              LET c == get_chunk_coords_at_translation(t)
              IN \A p \in VisibleFromCenter(c, chunk_view_distance) :
                    /\ p \in visible
                    /\ Square(p[1] - c[1]) + Square(p[2] - c[2]) + Square(p[3] - c[3])
                          <= Square(chunk_view_distance)
        /\ \A p \in visible :
              \E t \in cameras :
                  p \in Sphere(get_chunk_coords_at_translation(t), chunk_view_distance)

(* Reached: a visible set of view distance 2 that reaches the sphere's     *)
(* surface in a row z /= 0 and has a coordinate off the centre row with    *)
(* x /= 0.                                                                 *)
C29_Witness ==
    /\ pc = "visible_computed"
    /\ chunk_view_distance = 2
    /\ cameras = {<<0, 0, 0>>}
    /\ <<0, 0, 2>> \in visible
    /\ <<1, 0, 1>> \in visible
    /\ <<2, 0, 0>> \in visible

(* The chunk coordinates of the cameras.                                   *)
CameraCoords == {get_chunk_coords_at_translation(t) : t \in cameras}

(* C30: for every view distance and every camera the visible set holds     *)
(* the camera's own chunk coordinate; so the update_chunks of a tick with  *)
(* a camera leaves the chunk at the camera's coordinate in the registry:   *)
(* if it was loaded it is not evicted (same entity, no despawn queued),    *)
(* if it was absent it is spawned in that tick.                            *)
C30_Step ==
    (program = "terrain" /\ UpdateChunksStep) =>
        \A c \in CameraCoords :
            /\ c \in visible'
            /\ has_chunk(chunks', c)
            /\ has_chunk(chunks, c) =>
                  /\ chunks'[c] = chunks[c]
                  /\ DespawnCommands(commands', chunks[c]) = 0
                  /\ SpawnCommands(commands', c) = 0
            /\ ~has_chunk(chunks, c) =>
                  /\ SpawnCommands(commands', c) = 1
                  /\ chunks'[c] \in DOMAIN tasks' \ DOMAIN tasks

C30_OwnChunkVisible ==
    /\ [](\A v \in 0..MaxSweepViewDistance :
              CameraCoords \subseteq VisibleChunkCoords(cameras, v))
    /\ [][C30_Step]_vars

(* Reached: an update_chunks has run with two cameras, kept the loaded     *)
(* chunk of one, spawned the absent chunk of the other and evicted a chunk *)
(* no camera is at.                                                        *)
C30_Witness ==
    /\ program = "terrain"
    /\ pc = "handle_terrain_chunk_tasks"
    /\ \E c1, c2 \in CameraCoords :
          /\ c1 /= c2
          /\ has_chunk(chunks, c1) /\ chunks[c1] \in DOMAIN entities
          /\ DespawnCommands(commands, chunks[c1]) = 0
          /\ SpawnCommands(commands, c2) = 1
    /\ \E k \in DOMAIN commands : commands[k].op = "despawn"

(* The coordinates update_chunks enumerates for the camera at t.           *)
CameraRange(t) ==
    VisibleFromCenter(get_chunk_coords_at_translation(t), chunk_view_distance)

(* C31: the visible set of a tick is the union of the cameras' visible     *)
(* sets; the tick evicts a loaded chunk (registry entry removed, despawn   *)
(* queued) iff its coordinate is in no camera's set; without a camera the  *)
(* visible set is empty, every loaded chunk is evicted and nothing is      *)
(* spawned.                                                                *)
C31_Step ==
    (program = "terrain" /\ UpdateChunksStep) =>
        /\ visible' = UNION {CameraRange(t) : t \in cameras}
        /\ \A e \in DOMAIN entities :
              LET c == entities[e].coords
                  evicted == DespawnCommands(commands', e) = 1 /\ ~has_chunk(chunks', c)
                  kept == DespawnCommands(commands', e) = 0 /\ has_chunk(chunks', c)
                              /\ chunks'[c] = e
              IN /\ evicted <=> \A t \in cameras : c \notin CameraRange(t)
                 /\ kept <=> \E t \in cameras : c \in CameraRange(t)
        /\ cameras = {} =>
              /\ visible' = {}
              /\ chunks' = <<>>
              /\ \A e \in DOMAIN entities : DespawnCommands(commands', e) = 1
              /\ \A k \in DOMAIN commands' : commands'[k].op /= "spawn"
              /\ tasks' = tasks
              /\ next_entity' = next_entity

C31_VisibleIsUnionOverCameras == [][C31_Step]_vars

(* Reached: an update_chunks has run without any camera and evicted the    *)
(* two chunks that were loaded, spawning nothing.                          *)
C31_Witness ==
    /\ program = "terrain"
    /\ pc = "handle_terrain_chunk_tasks"
    /\ cameras = {}
    /\ visible = {}
    /\ chunks = <<>>
    /\ Cardinality(DOMAIN entities) = 2
    /\ \A e \in DOMAIN entities : DespawnCommands(commands, e) = 1
    /\ \A k \in DOMAIN commands : commands[k].op = "despawn"

(* Reached: an update_chunks has run with two cameras at different chunks  *)
(* and the visible set holds the coordinates of both.                      *)
C31_WitnessTwoCameras ==
    /\ program = "terrain"
    /\ pc = "handle_terrain_chunk_tasks"
    /\ Cardinality(cameras) = 2
    /\ Cardinality(visible) = 2
    /\ visible = UNION {CameraRange(t) : t \in cameras}
    /\ \E k \in DOMAIN commands : commands[k].op = "despawn"

====
